---- MODULE Spec2Model ----
(***************************************************************************)
(* BlinkCursor (crates/ui/src/input/blink_cursor.rs): the caret blink      *)
(* scheduler.  The struct's fields are the state; start/stop/pause are the *)
(* entry points; every cx.spawn(...) creates a timer continuation that the *)
(* executor runs once its timer has expired.  Time is counted in units of  *)
(* 100 ms.  A gpui Task that is dropped is cancelled: assigning a new task *)
(* to the _task field drops the handle the field held before.              *)
(***************************************************************************)
EXTENDS Integers, Sequences, FiniteSets, TLC

\* static INTERVAL: Duration::from_millis(500), in units of 100 ms
INTERVAL == 5
\* static PAUSE_DELAY: Duration::from_millis(300), in units of 100 ms
PAUSE_DELAY == 3

\* epoch is a usize; the model stops advancing it at MaxEpoch
MaxEpoch == 5
\* the history clocks saturate at ClockCap (> INTERVAL)
ClockCap == 6
\* at most MaxTasks continuations are held by the executor at once
MaxTasks == 3

VARIABLES
    visible,    \* BlinkCursor.visible
    paused,     \* BlinkCursor.paused
    epoch,      \* BlinkCursor.epoch
    alive,      \* the entity still exists (WeakEntity::upgrade succeeds)
    pool,       \* continuations spawned and not yet run or cancelled, oldest first
    notified,   \* cx.notify() was called by the last step
    last,       \* history: what the last step did
    lastCall,   \* history: the last of start/stop/pause that was called
    prevCall,   \* history: the call before lastCall
    debounced,  \* history: pause() was called again while a resume was pending
    chainEv,    \* history: the last event that scheduled a blink continuation
    clk         \* history: time since the last start(), the last pause(), the
                \* last chainEv, and since paused last turned true

vars == <<visible, paused, epoch, alive, pool, notified, last, lastCall,
          prevCall, debounced, chainEv, clk>>

----------------------------------------------------------------------------
\* Continuations

NoTask == [kind |-> "none", epoch |-> 0, rem |-> 0, owned |-> FALSE, stopped |-> FALSE]

\* A continuation: its kind (the closure spawned by blink or by pause), the
\* epoch the closure captured (the resume closure captures none: 0), the time
\* left on its timer, whether the _task field holds its handle, and (history)
\* whether stop() was called while it was in flight.
Task(kind, e, delay) ==
    [kind |-> kind, epoch |-> e, rem |-> delay, owned |-> TRUE, stopped |-> FALSE]

Remove(p, i) == [j \in 1..(Len(p) - 1) |-> IF j < i THEN p[j] ELSE p[j + 1]]

Owned(p) == SelectSeq(p, LAMBDA t : t.owned)

\* What a bug that detached the replaced task would do: it stays scheduled.
DetachTask(p) == [j \in 1..Len(p) |-> [p[j] EXCEPT !.owned = FALSE]]

\* Dropping the Task held by _task cancels it: the executor never runs it.
DropTask(p) == SelectSeq(p, LAMBDA t : ~t.owned)

\* The field as a list of handles: a new task is added and none is dropped.
SpawnKeep(p, kind, e, delay) == Append(p, Task(kind, e, delay))

\* self._task = cx.spawn(..): the new task replaces (drops) the old handle.
Spawn(p, kind, e, delay) == Append(DropTask(p), Task(kind, e, delay))

CanSpawn(p) == Len(DropTask(p)) < MaxTasks

----------------------------------------------------------------------------
\* BlinkCursor

\* The guard of blink without its epoch check.
StaleNoEpoch(e) == paused

\* The guard of blink with the epoch comparison inverted.
StaleInverted(e) == paused \/ e = epoch

\* The guard of blink without its paused test.
StaleNoPaused(e) == e # epoch

\* blink: `if self.paused || epoch != self.epoch`
Stale(e) == paused \/ e # epoch

\* visible() with the paused test inverted.
VisibleInverted == ~paused /\ visible

\* visible(): self.paused || self.visible
VisibleFn == paused \/ visible

\* next_epoch without the increment.
NextEpochStuck(e) == e

\* next_epoch: self.epoch += 1; self.epoch
NextEpoch(e) == e + 1

Bump(c) == IF c < ClockCap THEN c + 1 ELSE c

\* History: the state a step started from.
Snapshot ==
    [visible |-> visible, paused |-> paused, epoch |-> epoch, shown |-> VisibleFn,
     lastCall |-> lastCall, chainEv |-> chainEv, clk |-> clk, pool |-> pool]

\* History: the step just taken: the operation, whether it took its live
\* (mutating) branch, whether it spawned a continuation, the continuation that
\* ran, the continuations it cancelled, and the state it started from.
Step(op, live, spawned, task, dropped) ==
    [op |-> op, live |-> live, spawned |-> spawned, task |-> task,
     dropped |-> dropped, pre |-> Snapshot]

\* The timers the three spawned closures await (WrongTimer: the other
\* constant in place of INTERVAL).
WrongTimer == PAUSE_DELAY

BlinkTimer == INTERVAL

ResumeTimer == INTERVAL

PauseTimer == PAUSE_DELAY

\* this.upgrade() that succeeds although the entity is gone.
UpgradeAlways == TRUE

\* `if let Some(this) = this.upgrade()`: the weak handle upgrades while the
\* entity exists.
Upgrade == alive

\* blink(e), run with the continuations p left in the executor.
Blink(e, p) ==
    IF Stale(e)
    THEN /\ visible' = TRUE
         /\ notified' = FALSE
         /\ epoch' = epoch
         /\ pool' = p
         /\ chainEv' = chainEv
    ELSE /\ visible' = ~visible
         /\ notified' = TRUE
         /\ epoch' = NextEpoch(epoch)
         /\ pool' = Spawn(p, "blink", NextEpoch(epoch), BlinkTimer)
         /\ chainEv' = "toggle"

Init ==
    /\ visible = FALSE
    /\ paused = FALSE
    /\ epoch = 0
    /\ alive = TRUE
    /\ pool = <<>>
    /\ notified = FALSE
    /\ lastCall = "none"
    /\ prevCall = "none"
    /\ debounced = FALSE
    /\ chainEv = "none"
    /\ clk = [start |-> ClockCap, pause |-> ClockCap, chain |-> ClockCap,
              held |-> ClockCap]
    /\ last = Step("new", FALSE, FALSE, NoTask, <<>>)

\* start(): self.blink(self.epoch, cx)
Start ==
    /\ alive
    /\ Stale(epoch) \/ (epoch < MaxEpoch /\ CanSpawn(pool))
    /\ Blink(epoch, pool)
    /\ UNCHANGED <<paused, alive, debounced>>
    /\ last' = Step("start", ~Stale(epoch), ~Stale(epoch), NoTask,
                     IF Stale(epoch) THEN <<>> ELSE Owned(pool))
    /\ lastCall' = "start"
    /\ prevCall' = lastCall
    /\ clk' = [clk EXCEPT !.start = 0, !.chain = IF Stale(epoch) THEN @ ELSE 0]

\* stop() that also clears paused.
StopClearsPaused ==
    /\ alive
    /\ epoch' = 0
    /\ paused' = FALSE
    /\ notified' = TRUE
    /\ pool' = [j \in 1..Len(pool) |-> [pool[j] EXCEPT !.stopped = TRUE]]
    /\ UNCHANGED <<visible, alive, debounced, chainEv, clk>>
    /\ last' = Step("stop", TRUE, FALSE, NoTask, <<>>)
    /\ lastCall' = "stop"
    /\ prevCall' = lastCall

\* stop(): self.epoch = 0; cx.notify()
Stop ==
    /\ alive
    /\ epoch' = 0
    /\ notified' = TRUE
    /\ pool' = [j \in 1..Len(pool) |-> [pool[j] EXCEPT !.stopped = TRUE]]
    /\ UNCHANGED <<visible, paused, alive, debounced, chainEv, clk>>
    /\ last' = Step("stop", TRUE, FALSE, NoTask, <<>>)
    /\ lastCall' = "stop"
    /\ prevCall' = lastCall

\* pause(): the synchronous part, up to the spawn of the resume continuation
Pause ==
    /\ alive
    /\ epoch < MaxEpoch
    /\ CanSpawn(pool)
    /\ paused' = TRUE
    /\ visible' = TRUE
    /\ notified' = TRUE
    /\ epoch' = NextEpoch(epoch)
    /\ pool' = Spawn(pool, "resume", 0, PauseTimer)
    /\ debounced' = \E j \in 1..Len(pool) : pool[j].kind = "resume"
    /\ UNCHANGED <<alive, chainEv>>
    /\ last' = Step("pause", TRUE, TRUE, NoTask, Owned(pool))
    /\ lastCall' = "pause"
    /\ prevCall' = lastCall
    /\ clk' = [clk EXCEPT !.pause = 0, !.held = IF paused THEN @ ELSE 0]

\* The continuation spawned by blink: timer(INTERVAL).await, then
\* this.upgrade() and this.blink(epoch, cx)
FireBlink(i) ==
    /\ pool[i].kind = "blink"
    /\ pool[i].rem = 0
    /\ ~Upgrade \/ Stale(pool[i].epoch) \/ (epoch < MaxEpoch /\ CanSpawn(Remove(pool, i)))
    /\ IF Upgrade
       THEN /\ Blink(pool[i].epoch, Remove(pool, i))
            /\ last' = Step("blink", ~Stale(pool[i].epoch), ~Stale(pool[i].epoch), pool[i],
                             IF Stale(pool[i].epoch) THEN <<>> ELSE Owned(Remove(pool, i)))
            /\ clk' = [clk EXCEPT !.chain = IF Stale(pool[i].epoch) THEN @ ELSE 0]
       ELSE /\ pool' = Remove(pool, i)
            /\ notified' = FALSE
            /\ UNCHANGED <<visible, epoch, chainEv, clk>>
            /\ last' = Step("blink", FALSE, FALSE, pool[i], <<>>)
    /\ UNCHANGED <<paused, alive, lastCall, prevCall, debounced>>

\* The continuation spawned by pause: timer(PAUSE_DELAY).await, then
\* this.upgrade() and the resume closure
FireResume(i) ==
    /\ pool[i].kind = "resume"
    /\ pool[i].rem = 0
    /\ ~Upgrade \/ (epoch < MaxEpoch /\ CanSpawn(Remove(pool, i)))
    /\ IF Upgrade
       THEN /\ paused' = FALSE
            /\ visible' = TRUE
            /\ notified' = TRUE
            /\ epoch' = NextEpoch(epoch)
            /\ pool' = Spawn(Remove(pool, i), "blink", NextEpoch(epoch), ResumeTimer)
            /\ chainEv' = "resume"
            /\ clk' = [clk EXCEPT !.chain = 0]
            /\ last' = Step("resume", TRUE, TRUE, pool[i], Owned(Remove(pool, i)))
       ELSE /\ pool' = Remove(pool, i)
            /\ notified' = FALSE
            /\ UNCHANGED <<visible, paused, epoch, chainEv, clk>>
            /\ last' = Step("resume", FALSE, FALSE, pool[i], <<>>)
    /\ UNCHANGED <<alive, lastCall, prevCall, debounced>>

\* 100 ms pass; a timer that has expired runs its continuation first.
Tick ==
    /\ \A j \in 1..Len(pool) : pool[j].rem > 0
    /\ pool' = [j \in 1..Len(pool) |-> [pool[j] EXCEPT !.rem = @ - 1]]
    /\ clk' = [start |-> Bump(clk.start), pause |-> Bump(clk.pause),
               chain |-> Bump(clk.chain), held |-> Bump(clk.held)]
    /\ notified' = FALSE
    /\ last' = Step("tick", FALSE, FALSE, NoTask, <<>>)
    /\ UNCHANGED <<visible, paused, epoch, alive, lastCall, prevCall, debounced, chainEv>>

\* The owning input is released: the weak handle no longer upgrades.
Destroy ==
    /\ alive
    /\ alive' = FALSE
    /\ notified' = FALSE
    /\ last' = Step("destroy", FALSE, FALSE, NoTask, <<>>)
    /\ UNCHANGED <<visible, paused, epoch, pool, lastCall, prevCall, debounced, chainEv, clk>>

\* The released entity is dropped: its _task field is dropped with it, which
\* cancels the continuation it still held.
Release ==
    /\ ~alive
    /\ Owned(pool) # <<>>
    /\ pool' = DropTask(pool)
    /\ notified' = FALSE
    /\ last' = Step("release", FALSE, FALSE, NoTask, Owned(pool))
    /\ UNCHANGED <<visible, paused, epoch, alive, lastCall, prevCall, debounced, chainEv, clk>>

BlinkTimerFires == \E i \in 1..Len(pool) : FireBlink(i)

ResumeTimerFires == \E i \in 1..Len(pool) : FireResume(i)

Next ==
    \/ Start
    \/ Stop
    \/ Pause
    \/ BlinkTimerFires
    \/ ResumeTimerFires
    \/ Tick
    \/ Destroy
    \/ Release

Spec == Init /\ [][Next]_vars

\* Timers fire: time passes and a continuation whose timer has expired is run
\* by the executor.
LiveSpec ==
    /\ Init
    /\ [][Next]_vars
    /\ WF_vars(Tick)
    /\ WF_vars(BlinkTimerFires)
    /\ WF_vars(ResumeTimerFires)

----------------------------------------------------------------------------
\* Properties

TimerOps == {"blink", "resume"}

\* The continuation t would mutate state (toggle visible, clear paused,
\* advance the epoch or schedule a successor) if it ran now.
Effective(t) == alive /\ (t.kind = "resume" \/ ~Stale(t.epoch))

\* C1: overlapping timer chains never interleave their effects: among the
\* continuations still scheduled only the most recently scheduled one can
\* mutate state when it fires, and a firing that did mutate state was the
\* firing of the most recently scheduled continuation.
C1_OnlyLatestChainLive ==
    /\ \A i \in 1..Len(pool) : Effective(pool[i]) => i = Len(pool)
    /\ (last.op \in TimerOps /\ last.live) =>
          last.task = last.pre.pool[Len(last.pre.pool)]

\* A call superseded a scheduled continuation and the one that replaced it
\* is the live one.
C1_Witness ==
    /\ last.op \in {"start", "pause"}
    /\ last.dropped # <<>>
    /\ Len(pool) = 1
    /\ Effective(pool[1])

\* A blink continuation that was in flight when stop() was called has fired.
StoppedBlinkFired == last.op = "blink" /\ last.task.stopped /\ alive

\* C2 (as stated): a blink continuation that was in flight when stop() was
\* called changes neither the visible flag nor visible() when it fires, and
\* schedules nothing.
C2_StoppedBlinkChangesNothing ==
    StoppedBlinkFired =>
        /\ visible = last.pre.visible
        /\ VisibleFn = last.pre.shown
        /\ ~last.spawned

\* C2 (amended): a blink continuation that was in flight when stop() was
\* called never hides the caret and never reschedules when it fires: it
\* forces the visible flag to true (visible() changes only from false to
\* true), leaves paused and epoch unchanged and schedules nothing.
C2_StoppedBlinkForcesVisible ==
    StoppedBlinkFired =>
        /\ visible
        /\ VisibleFn
        /\ paused = last.pre.paused
        /\ epoch = last.pre.epoch
        /\ ~last.spawned
        /\ ~last.live
        /\ pool = <<>>

\* The stale continuation fired while the caret was hidden and showed it.
C2_Witness == StoppedBlinkFired /\ ~last.pre.shown /\ VisibleFn /\ ~last.live

\* C3: from a stop() call until the next start() or pause() call the epoch
\* stays 0 and no continuation that fires clears paused, hides or toggles the
\* caret, advances the epoch or schedules further work.
C3_StopIsInert ==
    (lastCall = "stop" /\ alive) =>
        /\ epoch = 0
        /\ last.op \in TimerOps =>
              /\ paused = last.pre.paused
              /\ epoch = last.pre.epoch
              /\ ~last.spawned
              /\ (last.pre.visible => visible)

\* C4: debounce: paused stays true until one full pause delay after the
\* latest pause() call, and the resume that takes effect is the one the latest
\* pause() scheduled (an earlier one never clears paused, advances the epoch
\* or schedules a blink).
C4_Debounce ==
    /\ clk.pause < PAUSE_DELAY => paused
    /\ (last.op = "resume" /\ last.live) =>
          /\ last.pre.clk.pause = PAUSE_DELAY
          /\ last.task.owned
          /\ Len(last.pre.pool) = 1

\* pause() was called again before the earlier resume fired; paused outlived
\* the delay of the earlier pause(), and the resume of the latest pause() has
\* now cleared it.
C4_Witness ==
    /\ debounced
    /\ last.op = "resume"
    /\ last.live
    /\ ~paused
    /\ last.pre.clk.held > PAUSE_DELAY

\* No start/stop/pause call has followed the last pause() call.
QuietSincePause == lastCall = "pause" /\ alive

\* C5: pause() makes visible() true at once; with no further call, the resume
\* is due exactly one pause delay after the pause, visible() stays true from
\* the pause until one full blink interval after the resume, and the first
\* toggle after the resume happens exactly one blink interval after it.
C5_PauseThenFullInterval ==
    QuietSincePause =>
        /\ last.op = "pause" => VisibleFn /\ paused
        /\ paused =>
              /\ VisibleFn
              /\ clk.pause <= PAUSE_DELAY
              /\ pool = <<Task("resume", 0, PAUSE_DELAY - clk.pause)>>
        /\ (~paused /\ chainEv = "resume") =>
              /\ VisibleFn
              /\ visible
              /\ clk.chain <= INTERVAL
              /\ pool = <<Task("blink", epoch, INTERVAL - clk.chain)>>
        /\ (last.op = "blink" /\ last.pre.chainEv = "resume") =>
              /\ last.live
              /\ last.pre.clk.chain = INTERVAL
              /\ last.pre.shown /\ ~VisibleFn

\* pause(), the resume and the first toggle after it, with no other call.
C5_Witness ==
    /\ QuietSincePause
    /\ last.op = "blink"
    /\ last.live
    /\ last.pre.chainEv = "resume"
    /\ ~visible

\* C6: visible() is true whenever paused is true, and always equals
\* paused OR visible.
C6_VisibleWhilePaused ==
    /\ paused => VisibleFn
    /\ VisibleFn <=> (paused \/ visible)

\* start() ran its suppressed branch while paused.
C6_Witness == paused /\ last.op = "start" /\ ~last.live /\ VisibleFn

\* C7: every step that schedules a continuation (blink's live branch, pause(),
\* the resume) advances epoch by exactly 1; only stop() decreases epoch or
\* sets it to 0; every other step leaves it alone.
C7_EpochMonotone ==
    /\ last.spawned => epoch = last.pre.epoch + 1
    /\ epoch < last.pre.epoch => last.op = "stop"
    /\ (epoch = 0 /\ last.op # "new") => (last.op = "stop" \/ last.pre.epoch = 0)
    /\ last.op = "stop" => epoch = 0
    /\ (last.op # "stop" /\ ~last.spawned) => epoch = last.pre.epoch

\* The resume advanced an epoch that pause() had already advanced.
C7_Witness == last.op = "resume" /\ last.live /\ epoch = last.pre.epoch + 1 /\ epoch >= 2

\* C8: after stop() and then start(), with no further call, the next toggle
\* happens exactly one blink interval after that start(): no continuation
\* acts before the interval has elapsed, the one that acts then is a blink
\* continuation passing the epoch check, and when the interval has elapsed
\* that continuation is due or has just toggled.
C8_RestartResetsPhase ==
    (lastCall = "start" /\ prevCall = "stop" /\ alive) =>
        /\ (last.op \in TimerOps /\ last.pre.lastCall = "start") =>
              /\ last.pre.clk.start = INTERVAL
              /\ last.task.kind = "blink"
              /\ last.live
        /\ clk.start = INTERVAL =>
              \/ \E i \in 1..Len(pool) : pool[i] = Task("blink", epoch, 0)
              \/ last.op = "blink" /\ last.live

\* C9: a blink continuation that was in flight when stop() was called never
\* passes the epoch check again: while it is scheduled its captured epoch
\* differs from the current one, whatever calls follow, and when it fires it
\* takes the stale branch.
C9_StoppedStaysStale ==
    /\ \A i \in 1..Len(pool) :
          (pool[i].kind = "blink" /\ pool[i].stopped) => pool[i].epoch # epoch
    /\ (last.op = "blink" /\ last.task.stopped) => ~last.live /\ ~last.spawned

\* After the stop() a later call brought the epoch back to the value the
\* in-flight continuation had captured, and that continuation is gone.
C9_Witness ==
    /\ last.op \in {"start", "pause"}
    /\ \E j \in 1..Len(last.dropped) :
          /\ last.dropped[j].kind = "blink"
          /\ last.dropped[j].stopped
          /\ last.dropped[j].epoch = epoch
    /\ \A i \in 1..Len(pool) : ~pool[i].stopped

\* C10 (as stated): after start(), while neither pause() nor stop() is
\* called and the scheduler exists, visible() changes only a full blink
\* interval after the previous toggle, and every timer firing flips visible
\* once and schedules one successor.
C10_OncePerInterval ==
    (lastCall = "start" /\ last.pre.lastCall = "start" /\ alive) =>
        /\ VisibleFn # last.pre.shown => last.pre.clk.chain = INTERVAL
        /\ last.op \in TimerOps =>
              /\ visible = ~last.pre.visible
              /\ last.spawned

\* C10 (amended): after start(), while neither pause() nor stop() is called,
\* the scheduler exists and is not paused, exactly one blink continuation is
\* pending, due one blink interval after the previous toggle (or resume);
\* every timer firing of the chain flips visible() exactly once, exactly one
\* interval after the previous toggle, and schedules exactly one successor.
\* Two toggles are less than an interval apart only when a further start()
\* call toggles at once.
C10_ChainOncePerInterval ==
    (lastCall = "start" /\ alive /\ ~paused) =>
        /\ clk.chain <= INTERVAL
        /\ pool = <<Task("blink", epoch, INTERVAL - clk.chain)>>
        /\ (last.op = "blink" /\ last.pre.lastCall = "start") =>
              /\ last.live
              /\ last.spawned
              /\ last.pre.clk.chain = INTERVAL
              /\ visible = ~last.pre.visible
              /\ VisibleFn = ~last.pre.shown
        /\ (VisibleFn # last.pre.shown /\ last.pre.lastCall = "start") =>
              (last.op = "start" \/ last.pre.clk.chain = INTERVAL)

\* The chain started by start() has toggled by timer twice in a row.
C10_Witness ==
    /\ lastCall = "start"
    /\ alive
    /\ last.op = "blink"
    /\ last.live
    /\ last.pre.chainEv = "toggle"
    /\ epoch >= 3
    /\ clk.start = ClockCap

\* start() was called once on a freshly created scheduler and no other call
\* has been made.
FreshStart == lastCall = "start" /\ prevCall = "none" /\ alive

\* C11 (as stated): on a freshly created scheduler visible() stays false
\* after start() until one blink interval has elapsed, the first timer
\* firing turns it true and the second turns it false again.
C11_FirstToggleAfterInterval ==
    FreshStart =>
        /\ clk.start < INTERVAL => ~VisibleFn
        /\ (last.op = "blink" /\ last.pre.epoch = 1) => VisibleFn
        /\ (last.op = "blink" /\ last.pre.epoch = 2) => ~VisibleFn

\* C11 (amended): on a freshly created scheduler start() itself toggles
\* visible() from false to true; visible() stays true for one blink interval,
\* the first timer firing, exactly one interval after start(), turns it false
\* and the second, one further interval later, turns it true again.
C11_FirstToggleAtStart ==
    FreshStart =>
        /\ last.op = "start" =>
              /\ ~last.pre.shown /\ VisibleFn
              /\ last.pre.epoch = 0 /\ epoch = 1
        /\ epoch = 1 =>
              /\ VisibleFn
              /\ clk.start <= INTERVAL
              /\ pool = <<Task("blink", 1, INTERVAL - clk.start)>>
        /\ (last.op = "blink" /\ last.pre.epoch = 1) =>
              /\ last.pre.clk.start = INTERVAL
              /\ last.pre.shown /\ ~VisibleFn
        /\ epoch = 2 =>
              /\ ~VisibleFn
              /\ clk.chain <= INTERVAL
              /\ pool = <<Task("blink", 2, INTERVAL - clk.chain)>>
        /\ (last.op = "blink" /\ last.pre.epoch = 2) =>
              /\ last.pre.clk.chain = INTERVAL
              /\ ~last.pre.shown /\ VisibleFn

\* Two timer firings after the single start(): visible() is true again.
C11_Witness == FreshStart /\ last.op = "blink" /\ last.pre.epoch = 2 /\ epoch = 3 /\ VisibleFn

\* C12: a continuation that fires after the scheduler was destroyed is a
\* silent no-op: it changes no field, signals no notify and schedules
\* nothing; it only leaves the executor.
C12_DestroyedFiringIsNoOp ==
    (last.op \in TimerOps /\ ~alive) =>
        /\ visible = last.pre.visible
        /\ paused = last.pre.paused
        /\ epoch = last.pre.epoch
        /\ VisibleFn = last.pre.shown
        /\ ~notified
        /\ ~last.spawned
        /\ ~last.live
        /\ Len(pool) = Len(last.pre.pool) - 1
        /\ \A i \in 1..Len(pool) : \E j \in 1..Len(last.pre.pool) : pool[i] = last.pre.pool[j]

\* A resume continuation fired on a destroyed scheduler; paused is still set.
C12_Witness == ~alive /\ last.op = "resume" /\ paused /\ pool = <<>>

\* C13: the scheduler owns at most one outstanding continuation: every step
\* that schedules one leaves the new continuation as the only one whose
\* handle _task holds, and the one held before is no longer pending.
C13_AtMostOneOwned ==
    /\ Len(Owned(pool)) <= 1
    /\ last.spawned =>
          /\ pool # <<>>
          /\ Owned(pool) = <<pool[Len(pool)]>>
          /\ \A j \in 1..Len(last.dropped) :
                \A i \in 1..Len(pool) : pool[i] # last.dropped[j] \/ i = Len(pool)

\* pause() replaced a pending blink continuation by the resume continuation.
C13_Witness ==
    /\ last.op = "pause"
    /\ Len(last.dropped) = 1
    /\ last.dropped[1].kind = "blink"
    /\ Owned(pool) = <<Task("resume", 0, PAUSE_DELAY)>>

\* C14: whenever blink(e) runs with paused set or e different from the
\* current epoch (start() while paused included) it takes the suppressed
\* branch, and only then: it sets visible to true, signals no notify, leaves
\* paused, epoch and the pending continuation unchanged and schedules nothing.
C14_SuppressedBranch ==
    /\ (last.op = "start") =>
          /\ last.live <=> ~last.pre.paused
          /\ ~last.live =>
                /\ visible
                /\ ~notified
                /\ paused = last.pre.paused
                /\ epoch = last.pre.epoch
                /\ pool = last.pre.pool
                /\ ~last.spawned /\ last.dropped = <<>>
    /\ (last.op = "blink" /\ alive) =>
          /\ last.live <=> ~(last.pre.paused \/ last.task.epoch # last.pre.epoch)
          /\ ~last.live =>
                /\ visible
                /\ ~notified
                /\ paused = last.pre.paused
                /\ epoch = last.pre.epoch
                /\ Len(pool) = Len(last.pre.pool) - 1
                /\ ~last.spawned /\ last.dropped = <<>>

\* start() was called while paused: the resume continuation is still pending
\* with its timer untouched.
C14_Witness ==
    /\ last.op = "start"
    /\ ~last.live
    /\ paused
    /\ Len(pool) = 1
    /\ pool[1].kind = "resume"
    /\ pool[1].rem < PAUSE_DELAY
    /\ pool = last.pre.pool

\* start() was just called on a scheduler that was not paused and had a blink
\* continuation pending.
StartWhileBlinking ==
    /\ last.op = "start"
    /\ alive
    /\ ~last.pre.paused
    /\ \E j \in 1..Len(last.pre.pool) : last.pre.pool[j].kind = "blink"

\* C15: start() while Blinking does not reset the epoch: it toggles visible
\* once at once, advances epoch by exactly 1 and supersedes the pending
\* continuation, so that exactly one continuation is left, due one blink
\* interval after this start(); and the timer firing that follows such a
\* start() toggles exactly one interval after it.
C15_StartWhileBlinking ==
    /\ StartWhileBlinking =>
          /\ last.live
          /\ visible = ~last.pre.visible
          /\ notified
          /\ epoch = last.pre.epoch + 1
          /\ last.dropped = last.pre.pool
          /\ pool = <<Task("blink", epoch, INTERVAL)>>
    /\ (last.op = "blink" /\ alive /\ last.pre.lastCall = "start"
          /\ last.pre.chainEv = "toggle" /\ last.pre.clk.start = last.pre.clk.chain) =>
          /\ last.live
          /\ last.pre.clk.start = INTERVAL
          /\ visible = ~last.pre.visible

\* start() was called in the middle of a running chain's interval.
C15_Witness ==
    /\ StartWhileBlinking
    /\ last.pre.epoch >= 2
    /\ last.pre.pool[1].rem > 0
    /\ last.pre.pool[1].rem < INTERVAL
    /\ last.pre.pool[1].epoch = last.pre.epoch

\* C16: stop() only sets epoch to 0 and signals notify: the visible flag,
\* paused and visible() are unchanged and the pending continuation is neither
\* cancelled nor replaced (its timer runs on).
C16_StopFrame ==
    last.op = "stop" =>
        /\ epoch = 0
        /\ notified
        /\ visible = last.pre.visible
        /\ paused = last.pre.paused
        /\ VisibleFn = last.pre.shown
        /\ ~last.spawned
        /\ last.dropped = <<>>
        /\ Len(pool) = Len(last.pre.pool)
        /\ \A i \in 1..Len(pool) : pool[i] = [last.pre.pool[i] EXCEPT !.stopped = TRUE]

\* stop() during a pause: still paused, still shown, the resume still pending.
C16_Witness ==
    /\ last.op = "stop"
    /\ paused
    /\ VisibleFn
    /\ last.pre.epoch > 0
    /\ Len(pool) = 1
    /\ pool[1].kind = "resume"

\* C17: every step that changes the value of visible() signals notify in the
\* same step.
C17_NotifyOnChange == VisibleFn # last.pre.shown => notified

\* C18: the visible flag itself is true whenever paused is true.
C18_FlagSetWhilePaused == paused => visible

\* Paused, and start() has run blink's suppressed branch, which wrote visible.
C18_Witness == paused /\ visible /\ last.op = "start" /\ last.pre.paused /\ last.pre.visible

\* C19: a pending blink continuation captured an epoch k >= 1 and the current
\* epoch is k or 0; it differs from k only if stop() was called after the
\* continuation was scheduled.
C19_PendingBlinkEpoch ==
    \A i \in 1..Len(pool) :
        pool[i].kind = "blink" =>
            /\ pool[i].epoch >= 1
            /\ epoch = pool[i].epoch \/ epoch = 0
            /\ epoch # pool[i].epoch => pool[i].stopped

\* A blink continuation of a later epoch is pending after stop().
C19_Witness ==
    /\ Len(pool) = 1
    /\ pool[1].kind = "blink"
    /\ pool[1].epoch >= 2
    /\ pool[1].stopped
    /\ epoch = 0

\* The run has left the case of C20: a further call was made, the scheduler
\* was destroyed, or the epoch has reached the bound of the model.
C20_Left == ~QuietSincePause \/ epoch >= MaxEpoch

\* C20: after pause(), in any state and also on a scheduler that was never
\* started, with no further call and while the scheduler exists, paused
\* eventually becomes false and from then on visible keeps toggling: a shown
\* caret is eventually hidden and a hidden one eventually shown.
C20_PauseLeadsToBlinking ==
    /\ (QuietSincePause /\ paused) ~> (C20_Left \/ ~paused)
    /\ (QuietSincePause /\ ~paused /\ visible) ~> (C20_Left \/ ~visible)
    /\ (QuietSincePause /\ ~paused /\ ~visible) ~> (C20_Left \/ visible)

\* pause() was the only call ever made, and the chain it led to has toggled
\* by timer twice.
C20_Witness ==
    /\ QuietSincePause
    /\ prevCall = "none"
    /\ ~paused
    /\ last.op = "blink"
    /\ last.live
    /\ last.pre.chainEv = "toggle"
    /\ epoch = 4

====
